---- MODULE Spec2Model ----
(***************************************************************************)
(* A model of python-nexus (src/nexus.py): the block splitter              *)
(* Nexus.read_file, the dispatch Nexus._do_blocks and the handlers         *)
(* GenericHandler, TreeHandler and DataHandler.                            *)
(*                                                                         *)
(* A Python string is a sequence of one-character strings, so that         *)
(* strip, lower, split, startswith and the regular expressions are         *)
(* computed as the code computes them.                                     *)
(***************************************************************************)
EXTENDS Integers, Sequences, FiniteSets, TLC

VARIABLES
    blocks,     \* Nexus.blocks, the CLASS attribute (nexus.py:167)
    log,        \* Nexus.log, the CLASS attribute (nexus.py:169)
    docs,       \* the Nexus(...) calls made so far, one record per call
    pc,         \* where the running Nexus(filename) call stands
    lines,      \* the raw lines the running call has read from its file
    store,      \* read_file's local `store`
    block,      \* read_file's local `block`
    todo,       \* _do_blocks: the items of raw_blocks not iterated yet
    nread,      \* lines read by all calls so far (bounded by MaxLines)
    dst,        \* a DataHandler.parse(data) call: handler, seen_matrix, exception
    dlines,     \* the lines of `data` that call has iterated over so far
    th,         \* a trees handler: translators, trees, flags, taxa
    tcases,     \* the trees of th as read, each as its sequence of tokens
    tcalls,     \* the detranslate calls made on th (bounded by MaxCalls)
    tfirst,     \* the trees of th as the first detranslate call left them
    rt,         \* a round trip: a text, its parse, what write gives, its parse
    tx,         \* a taxa handler's parse: the lines taken so far and the handler
    cm,         \* a remove_comments call: the line and what it returned
    sp          \* a read_file call taken whole: the file and the raw blocks

readerVars == <<blocks, log, docs, pc, lines, store, block, todo, nread>>
dataVars == <<dst, dlines>>
treeVars == <<th, tcases, tcalls, tfirst>>
rtVars == <<rt>>
callVars == <<tx, cm, sp>>
vars == <<blocks, log, docs, pc, lines, store, block, todo, nread, dst, dlines,
          th, tcases, tcalls, tfirst, rt, tx, cm, sp>>

(***************************************************************************)
(* Bounds of the model.                                                    *)
(***************************************************************************)
MaxLines == 3
MaxDocs == 2
MaxDataLines == 5
MaxCalls == 2
MaxTrees == 2
MaxTaxa == 3
MaxLineLen == 5
MaxFileLen == 4

(***************************************************************************)
(* Python's str methods and the re patterns of nexus.py:52-57.             *)
(***************************************************************************)
\* Python's None, where a string may stand too: a string x is <<x>>, None is <<>>
None == <<>>
Some(x) == <<x>>

\* Python's True as a dict value beside strings
PyTrue == <<"True">>

UpperChars == <<"A","B","C","D","E","F","G","H","I","J","K","L","M",
                "N","O","P","Q","R","S","T","U","V","W","X","Y","Z">>
LowerChars == <<"a","b","c","d","e","f","g","h","i","j","k","l","m",
                "n","o","p","q","r","s","t","u","v","w","x","y","z">>
Digits == <<"0","1","2","3","4","5","6","7","8","9">>

Range(f) == {f[i] : i \in DOMAIN f}

UpperSet == Range(UpperChars)
DigitSet == Range(Digits)
WordChars == Range(UpperChars) \cup Range(LowerChars) \cup Range(Digits) \cup {"_"}
Whitespace == {" ", "\t", "\n", "\r"}
LowerOf == [c \in UpperSet |-> LowerChars[CHOOSE i \in DOMAIN UpperChars : UpperChars[i] = c]]

\* str.lower on one character
LowerChar(c) == IF c \in UpperSet THEN LowerOf[c] ELSE c

\* str.lower
Lower(s) == [i \in 1..Len(s) |-> LowerChar(s[i])]

\* string.whitespace, what str.strip() removes
IsSpace(c) == c \in Whitespace

IsDigit(c) == c \in DigitSet

\* \w of the re module
IsWordChar(c) == c \in WordChars

SetMin(S) == CHOOSE x \in S : \A y \in S : x <= y
SetMax(S) == CHOOSE x \in S : \A y \in S : y <= x

\* str.strip()
Strip(s) ==
    LET keep == {i \in 1..Len(s) : ~IsSpace(s[i])}
    IN  IF keep = {} THEN <<>> ELSE SubSeq(s, SetMin(keep), SetMax(keep))

\* str.startswith / str.endswith
StartsWith(s, p) == Len(s) >= Len(p) /\ SubSeq(s, 1, Len(p)) = p
EndsWith(s, p) == Len(s) >= Len(p) /\ SubSeq(s, Len(s) - Len(p) + 1, Len(s)) = p

\* the positions where p occurs in s
Occurrences(s, p) == {i \in 1..(Len(s) - Len(p) + 1) : SubSeq(s, i, i + Len(p) - 1) = p}

\* `p in s`
Contains(s, p) == Occurrences(s, p) # {}

\* the end of the longest run of characters of the set S that starts at position
\* i, and of the longest run of characters outside S
RunEndIn(s, i, S) ==
    LET stop == {j \in i..Len(s) : s[j] \notin S}
    IN  IF stop = {} THEN Len(s) ELSE SetMin(stop) - 1
RunEndOut(s, i, S) ==
    LET stop == {j \in i..Len(s) : s[j] \in S}
    IN  IF stop = {} THEN Len(s) ELSE SetMin(stop) - 1

S_begin == <<"b","e","g","i","n"," ">>
S_end == <<"e","n","d",";">>
S_semi == <<";">>

\* BEGIN_PATTERN, `begin (\w+);` with re.IGNORECASE: the positions where it matches
BeginMatches(s) ==
    {i \in Occurrences(Lower(s), S_begin) :
        LET e == RunEndIn(s, i + 6, WordChars)
        IN  e >= i + 6 /\ e < Len(s) /\ s[e + 1] = ";"}

\* the elements of a set of integers in increasing order
RECURSIVE SortedSeq(_)
SortedSeq(S) == IF S = {} THEN <<>> ELSE <<SetMin(S)>> \o SortedSeq(S \ {SetMin(S)})

\* BEGIN_PATTERN.findall(line): the captured names, left to right (two matches
\* never overlap: a match ends in `;` and holds one space, right after `begin`)
BeginFindall(s) ==
    LET at == SortedSeq(BeginMatches(s))
    IN  [k \in 1..Len(at) |-> SubSeq(s, at[k] + 6, RunEndIn(s, at[k] + 6, WordChars))]

\* BEGIN_PATTERN.match(line): a match at the start of the line
MatchBegin(s) == 1 \in BeginMatches(s)

\* END_PATTERN1.search(line), `end;` with re.IGNORECASE
SearchEnd1(s) == Contains(Lower(s), S_end)

\* END_PATTERN2.search(line), `^;$`
SearchEnd2(s) == s = S_semi


(***************************************************************************)
(* GenericHandler and TreeHandler (nexus.py:59-84).                        *)
(***************************************************************************)
\* GenericHandler(): storage = []
NewGeneric == [kind |-> "Generic", storage |-> <<>>]

\* GenericParse appending the list itself, as TreeHandler.parse does
GenericParse_AppendList(h, data) == [h EXCEPT !.storage = Append(h.storage, data)]

\* GenericHandler.parse: every line appended to storage
GenericParse(h, data) == [h EXCEPT !.storage = h.storage \o data]

\* TreeHandler(): GenericHandler.__init__
NewTree == [kind |-> "Tree", storage |-> <<>>]

\* TreeHandler.parse: the list of lines appended to storage as ONE element
TreeParse(h, data) == [h EXCEPT !.storage = Append(h.storage, data)]

(***************************************************************************)
(* DataHandler (nexus.py:86-163).                                          *)
(***************************************************************************)
S_dimensions == <<"d","i","m","e","n","s","i","o","n","s"," ">>
S_format == <<"f","o","r","m","a","t"," ">>
S_matrix == <<"m","a","t","r","i","x">>
S_charstatelabels == <<"c","h","a","r","s","t","a","t","e","l","a","b","e","l","s">>
S_ntax == <<"n","t","a","x","=">>
S_nchar == <<"n","c","h","a","r","=">>

\* DataHandler()
NewData ==
    [kind |-> "Data", taxa |-> <<>>, ntaxa |-> 0, nchar |-> 0, format |-> <<>>,
     gaps |-> None, missing |-> None, matrix |-> <<>>]

DigitValue == [c \in DigitSet |-> (CHOOSE i \in DOMAIN Digits : Digits[i] = c) - 1]

\* int() of a string of digits
RECURSIVE ParseInt(_)
ParseInt(ds) ==
    IF ds = <<>> THEN 0
    ELSE 10 * ParseInt(SubSeq(ds, 1, Len(ds) - 1))
         + DigitValue[ds[Len(ds)]]

\* KeyIntMatches without re.IGNORECASE: the key is looked for as written in lower case
KeyIntMatches_CaseSensitive(s, key) ==
    {i \in Occurrences(s, key) : i + Len(key) <= Len(s) /\ IsDigit(s[i + Len(key)])}

\* a pattern `KEY=(\d+)` with re.IGNORECASE: the positions where it matches
KeyIntMatches(s, key) ==
    {i \in Occurrences(Lower(s), key) :
        i + Len(key) <= Len(s) /\ IsDigit(s[i + Len(key)])}

\* pattern.findall(line) for `KEY=(\d+)`: the captured digit strings, left to
\* right (a later match inside an earlier one's digits is impossible: the key
\* holds letters)
KeyIntFindall(s, key) ==
    LET at == SortedSeq(KeyIntMatches(s, key))
    IN  [k \in 1..Len(at) |->
            SubSeq(s, at[k] + Len(key), RunEndIn(s, at[k] + Len(key), DigitSet))]

\* NTAX_PATTERN.findall, NCHAR_PATTERN.findall
NtaxFindall(s) == KeyIntFindall(s, S_ntax)
NcharFindall(s) == KeyIntFindall(s, S_nchar)

\* str.lstrip(chars), str.strip(chars)
LStripChars(s, chars) ==
    LET keep == {i \in 1..Len(s) : s[i] \notin chars}
    IN  IF keep = {} THEN <<>> ELSE SubSeq(s, SetMin(keep), Len(s))
StripChars(s, chars) ==
    LET keep == {i \in 1..Len(s) : s[i] \notin chars}
    IN  IF keep = {} THEN <<>> ELSE SubSeq(s, SetMin(keep), SetMax(keep))

\* str.replace(c, '') for one character c
RECURSIVE RemoveChar(_, _)
RemoveChar(s, c) ==
    IF s = <<>> THEN <<>>
    ELSE (IF Head(s) = c THEN <<>> ELSE <<Head(s)>>) \o RemoveChar(Tail(s), c)

\* str.split(): the maximal runs of non-whitespace, left to right
SplitWhitespace(s) ==
    LET starts == {i \in 1..Len(s) : ~IsSpace(s[i]) /\ (i = 1 \/ IsSpace(s[i - 1]))}
        at == SortedSeq(starts)
    IN  [k \in 1..Len(at) |-> SubSeq(s, at[k], RunEndOut(s, at[k], Whitespace))]

\* `k, v = chunk.split("=")` and its `except ValueError: k, v = chunk, True`:
\* the unpacking succeeds exactly when the chunk holds one `=`
ChunkKey(chunk) ==
    LET eq == Occurrences(chunk, <<"=">>)
    IN  IF Cardinality(eq) = 1 THEN SubSeq(chunk, 1, SetMin(eq) - 1) ELSE chunk
ChunkValue(chunk) ==
    LET eq == Occurrences(chunk, <<"=">>)
    IN  IF Cardinality(eq) = 1 THEN SubSeq(chunk, SetMin(eq) + 1, Len(chunk)) ELSE PyTrue

\* DataHandler._parse_format_line: a later chunk overrides an earlier one of its key
ParseFormatLine(line) ==
    LET clean == RemoveChar(Strip(StripChars(
                    LStripChars(Lower(line), {"f","o","r","m","a","t"}), {";"})), "\"")
        chunks == SplitWhitespace(clean)
        keys == {ChunkKey(chunks[i]) : i \in DOMAIN chunks}
    IN  [k \in keys |->
            ChunkValue(chunks[SetMax({i \in DOMAIN chunks : ChunkKey(chunks[i]) = k})])]

\* line.split(' ', 1) succeeds (two parts) exactly when the line holds a space
FirstSpace(line) == SetMin(Occurrences(line, <<" ">>))

\* MatrixRow storing the fragment in place of the taxon's list, not appending to it
MatrixRow_Overwrite(h, line) ==
    IF ~Contains(line, <<" ">>) THEN h
    ELSE LET taxon == Strip(SubSeq(line, 1, FirstSpace(line) - 1))
             sites == Strip(SubSeq(line, FirstSpace(line) + 1, Len(line)))
         IN  [h EXCEPT
                !.taxa = IF taxon \in Range(h.taxa) THEN h.taxa ELSE Append(h.taxa, taxon),
                !.matrix = [t \in DOMAIN h.matrix \cup {taxon} |->
                              IF t = taxon THEN <<sites>> ELSE h.matrix[t]]]

\* the matrix branch of DataHandler.parse (nexus.py:148-160)
\* MatrixRow without the `taxon not in self.taxa` test
MatrixRow_AlwaysAppend(h, line) ==
    IF ~Contains(line, <<" ">>) THEN h
    ELSE LET taxon == Strip(SubSeq(line, 1, FirstSpace(line) - 1))
             sites == Strip(SubSeq(line, FirstSpace(line) + 1, Len(line)))
             old == IF taxon \in DOMAIN h.matrix THEN h.matrix[taxon] ELSE <<>>
         IN  [h EXCEPT
                !.taxa = Append(h.taxa, taxon),
                !.matrix = [t \in DOMAIN h.matrix \cup {taxon} |->
                              IF t = taxon THEN Append(old, sites) ELSE h.matrix[t]]]

MatrixRow(h, line) ==
    IF ~Contains(line, <<" ">>) THEN h
    ELSE LET taxon == Strip(SubSeq(line, 1, FirstSpace(line) - 1))
             sites == Strip(SubSeq(line, FirstSpace(line) + 1, Len(line)))
             old == IF taxon \in DOMAIN h.matrix THEN h.matrix[taxon] ELSE <<>>
         IN  [h EXCEPT
                !.taxa = IF taxon \in Range(h.taxa) THEN h.taxa ELSE Append(h.taxa, taxon),
                !.matrix = [t \in DOMAIN h.matrix \cup {taxon} |->
                              IF t = taxon THEN Append(old, sites) ELSE h.matrix[t]]]

\* The state of one DataHandler.parse call: the handler, whether the local
\* seen_matrix has been assigned (it is never assigned False), and the
\* exception raised, if any.
StartParse(h) == [h |-> h, seen_matrix |-> FALSE, err |-> "none"]

\* the dimensions branch (nexus.py:131-134): findall(...)[0] raises IndexError on
\* an empty list; ntaxa is assigned before nchar is looked for
Dimensions(st, line) ==
    IF NtaxFindall(line) = <<>> THEN [st EXCEPT !.err = "IndexError"]
    ELSE LET h1 == [st.h EXCEPT !.ntaxa = ParseInt(NtaxFindall(line)[1])]
         IN  IF NcharFindall(line) = <<>>
             THEN [st EXCEPT !.h = h1, !.err = "IndexError"]
             ELSE [st EXCEPT !.h = [h1 EXCEPT !.nchar = ParseInt(NcharFindall(line)[1])]]

\* one iteration of the loop of DataHandler.parse (nexus.py:128-160)
DataParseLine(st, line) ==
    LET lline == Lower(line)
    IN  IF StartsWith(lline, S_dimensions) THEN Dimensions(st, line)
        ELSE IF StartsWith(lline, S_format)
            THEN [st EXCEPT !.h.format = ParseFormatLine(line)]
        ELSE IF StartsWith(lline, S_matrix) THEN [st EXCEPT !.seen_matrix = TRUE]
        ELSE IF MatchBegin(line) THEN st
        ELSE IF Contains(lline, S_charstatelabels)
            THEN [st EXCEPT !.err = "NotImplementedError"]
        ELSE IF ~st.seen_matrix THEN [st EXCEPT !.err = "UnboundLocalError"]
        ELSE [st EXCEPT !.h = MatrixRow(st.h, line)]

\* DataHandler.parse: the loop, left at the first exception
RECURSIVE DataParseFrom(_, _)
DataParseFrom(st, data) ==
    IF data = <<>> \/ st.err # "none" THEN st
    ELSE DataParseFrom(DataParseLine(st, Head(data)), Tail(data))

DataParse(h, data) == DataParseFrom(StartParse(h), data)



(***************************************************************************)
(* The trees handler's detranslate.  nexus.py has no detranslate (its      *)
(* TreeHandler only stores the lines): the handler's fields and the        *)
(* operation are modelled from the specification, sections 3 and 4.5.      *)
(***************************************************************************)
\* a trees handler that holds the translate table tr and the tree statements ts
TreesHandler(tr, ts, names) ==
    [translators |-> tr, trees |-> ts, was_translated |-> tr # <<>>,
     been_detranslated |-> FALSE, taxa |-> names]

\* the characters that end a label of a tree string
LabelEnd == {"(", ")", ",", ":", ";", " ", "[", "]"}
IsLabelChar(c) == c \notin LabelEnd

\* DetranslateTree replacing a key wherever its characters occur
RECURSIVE SubstituteFrom(_, _, _)
SubstituteFrom(s, i, tr) ==
    IF i > Len(s) THEN <<>>
    ELSE LET here == {k \in DOMAIN tr : i + Len(k) - 1 <= Len(s) /\ SubSeq(s, i, i + Len(k) - 1) = k}
         IN  IF here = {} THEN <<s[i]>> \o SubstituteFrom(s, i + 1, tr)
             ELSE LET k == CHOOSE x \in here : \A y \in here : Len(y) <= Len(x)
                  IN  tr[k] \o SubstituteFrom(s, i + Len(k), tr)
DetranslateTree_Substring(s, tr) == SubstituteFrom(s, 1, tr)

\* one tree string detranslated: a label is a whole token, one that starts
\* after `(` or `,` and runs to the `,`, `)` or `:` that ends it
RECURSIVE DetranslateFrom(_, _, _)
DetranslateFrom(s, i, tr) ==
    IF i > Len(s) THEN <<>>
    ELSE IF i > 1 /\ s[i - 1] \in {"(", ","} /\ IsLabelChar(s[i])
         THEN LET e == RunEndOut(s, i, LabelEnd)
                  token == SubSeq(s, i, e)
              IN  (IF e < Len(s) /\ s[e + 1] \in {",", ")", ":"} /\ token \in DOMAIN tr
                   THEN tr[token] ELSE token) \o DetranslateFrom(s, e + 1, tr)
         ELSE <<s[i]>> \o DetranslateFrom(s, i + 1, tr)
\* DetranslateTree rendering the tree statement anew, without its spaces
DetranslateTree_NoSpaces(s, tr) == RemoveChar(DetranslateFrom(s, 1, tr), " ")

DetranslateTree(s, tr) == DetranslateFrom(s, 1, tr)

\* Detranslate without the _been_detranslated guard
Detranslate_NoGuard(h) ==
    [h EXCEPT !.trees = [i \in DOMAIN h.trees |-> DetranslateTree(h.trees[i], h.translators)],
              !.been_detranslated = TRUE]

\* detranslate: every tree string rewritten, _been_detranslated set; a no-op
\* once it is set
Detranslate(h) ==
    IF h.been_detranslated THEN h
    ELSE [h EXCEPT
            !.trees = [i \in DOMAIN h.trees |-> DetranslateTree(h.trees[i], h.translators)],
            !.been_detranslated = TRUE]

(***************************************************************************)
(* Nexus (nexus.py:166-222).                                               *)
(***************************************************************************)
S_trees == <<"t","r","e","e","s">>
S_data == <<"d","a","t","a">>

\* Nexus.known_blocks
known_blocks == (S_trees :> "Tree") @@ (S_data :> "Data")

\* known_blocks.get(block, GenericHandler)
HandlerFor(b) == IF b \in DOMAIN known_blocks THEN known_blocks[b] ELSE "Generic"

\* the handler's constructor
NewHandler(kind) ==
    CASE kind = "Data" -> NewData
      [] kind = "Tree" -> NewTree
      [] OTHER -> NewGeneric

\* handler.parse(data): the handler as parse leaves it, and the exception raised
ParseWith(kind, data) ==
    CASE kind = "Data" ->
            LET st == DataParse(NewData, data) IN [h |-> st.h, err |-> st.err]
      [] kind = "Tree" -> [h |-> TreeParse(NewTree, data), err |-> "none"]
      [] OTHER -> [h |-> GenericParse(NewGeneric, data), err |-> "none"]

\* `line.startswith('[') and line.endswith(']')`
IsCommentLine(line) == StartsWith(line, <<"[">>) /\ EndsWith(line, <<"]">>)

\* BlockName without .lower()
BlockName_NoLower(found) == found[1]

\* `block = found[0].lower()`
BlockName(found) == Lower(found[1])

\* `store.has_key(block)`
HasKey(d, k) == k \in DOMAIN d

\* `END_PATTERN1.search(line) or END_PATTERN2.search(line)`
\* ClosesBlock without END_PATTERN2: a lone `;` closes nothing
ClosesBlock_EndOnly(line) == SearchEnd1(line)

ClosesBlock(line) == SearchEnd1(line) \/ SearchEnd2(line)

\* d[k] = v on a dict
SetItem(d, k, v) == [x \in DOMAIN d \cup {k} |-> IF x = k THEN v ELSE d[x]]

\* the body of the loop of read_file (nexus.py:198-217) on one line, on the
\* locals store and block; err is the exception it raises, if any
ReadStep(rs, raw) ==
    LET line == Strip(raw)
        found == BeginFindall(line)
    IN  IF Len(line) = 0 \/ IsCommentLine(line) THEN rs
        ELSE IF found # <<>> /\ HasKey(rs.store, BlockName(found))
        THEN [rs EXCEPT !.err = "DuplicateBlock"]
        ELSE LET store1 == IF found # <<>>
                           THEN SetItem(rs.store, BlockName(found), <<>>) ELSE rs.store
                 block1 == IF found # <<>> THEN Some(BlockName(found)) ELSE rs.block
                 block2 == IF ClosesBlock(line) THEN None ELSE block1
             IN  [rs EXCEPT
                    !.block = block2,
                    !.store = IF block2 # None
                              THEN SetItem(store1, block2[1], Append(store1[block2[1]], line))
                              ELSE store1]

\* The lines a file may hold, as read (before strip).
F_BeginData == <<"B","e","g","i","n"," ","d","a","t","a",";">>                \* 'Begin data;'
F_BeginDataUpper == <<" "," ","B","E","G","I","N"," ","D","A","T","A",";">>   \* '  BEGIN DATA;'
F_BeginNotes == <<"b","e","g","i","n"," ","n","o","t","e","s",";">>           \* 'begin notes;'
F_BeginTrees == <<"B","e","g","i","n"," ","t","r","e","e","s",";">>           \* 'Begin trees;'
F_Matrix == <<"M","a","t","r","i","x">>                                       \* 'Matrix'
F_Row == <<"H","a","r","r","y"," ","0","0">>                                  \* 'Harry 00'
F_End == <<"E","n","d",";">>                                                  \* 'End;'
F_Semi == <<"\t",";">>                                                        \* '<tab>;'
F_Blank == <<" "," ">>                                                        \* '  '
F_Comment == <<"[","c","]">>                                                  \* '[c]'

FileLines ==
    {F_BeginData, F_BeginDataUpper, F_BeginNotes, F_BeginTrees, F_Matrix, F_Row,
     F_End, F_Semi, F_Blank, F_Comment}

\* what a Nexus(filename) call leaves: the lines it read, self.raw_blocks (with
\* whether it was assigned), how the call ended ("ok": the caller holds the
\* instance; otherwise the exception), read_file's `block` on leaving the loop
\* at end of file, and the block whose parse raised
Call(ls, assigned, raw, result, at_eof, failed) ==
    [lines |-> ls, has_raw_blocks |-> assigned, raw_blocks |-> raw, result |-> result,
     block_at_eof |-> at_eof, failed_block |-> failed]

\* the variables of the handlers taken on their own, where no call is made on them
DataAtRest ==
    /\ dst = StartParse(NewData)
    /\ dlines = <<>>

TreesAtRest ==
    /\ th = TreesHandler(<<>>, <<>>, {})
    /\ tcases = <<>>
    /\ tcalls = 0
    /\ tfirst = <<>>

NoDocument == [err |-> "none", blocks |-> <<>>]

RoundTripAtRest ==
    rt = [stage |-> "rest", text |-> <<>>, doc |-> NoDocument, out |-> <<>>,
          doc2 |-> NoDocument]

\* no call made on a taxa handler, on remove_comments or on read_file alone
NoCall == [stage |-> "rest"]
CallsAtRest ==
    /\ tx = NoCall
    /\ cm = NoCall
    /\ sp = NoCall

ReaderAtRest ==
    /\ blocks = <<>>
    /\ log = <<>>
    /\ docs = <<>>
    /\ pc = "idle"
    /\ lines = <<>>
    /\ store = <<>>
    /\ block = None
    /\ todo = {}
    /\ nread = 0

Init ==
    /\ blocks = <<>>
    /\ log = <<>>
    /\ docs = <<>>
    /\ pc = "idle"
    /\ lines = <<>>
    /\ store = <<>>
    /\ block = None
    /\ todo = {}
    /\ nread = 0
    /\ DataAtRest
    /\ TreesAtRest
    /\ RoundTripAtRest
    /\ CallsAtRest

\* Nexus(filename): __init__ calls read_file, which opens the file
NewNexus ==
    /\ pc = "idle"
    /\ Len(docs) < MaxDocs
    /\ pc' = "reading"
    /\ lines' = <<>>
    /\ store' = <<>>
    /\ block' = None
    /\ todo' = {}
    /\ UNCHANGED <<blocks, log, docs, nread>>
    /\ UNCHANGED <<dataVars, treeVars, rtVars, callVars>>

\* one iteration of the loop of read_file (nexus.py:197-217) on the next line
ReadLine(raw) ==
    /\ pc = "reading"
    /\ nread < MaxLines
    /\ nread' = nread + 1
    /\ lines' = Append(lines, raw)
    /\ UNCHANGED <<blocks, log, todo>>
    /\ UNCHANGED <<dataVars, treeVars, rtVars, callVars>>
    /\ LET rs == ReadStep([store |-> store, block |-> block, err |-> "none"], raw)
       IN  /\ store' = rs.store
           /\ block' = rs.block
           /\ IF rs.err = "none"
              THEN UNCHANGED <<docs, pc>>
              ELSE /\ pc' = "idle"
                   /\ docs' = Append(docs, Call(lines', FALSE, <<>>, rs.err, None, None))

\* the end of the file: handle.close(), self.raw_blocks = store, and
\* _do_blocks starts on raw_blocks.iteritems()
EndOfFile ==
    /\ pc = "reading"
    /\ pc' = "dispatch"
    /\ todo' = DOMAIN store
    /\ UNCHANGED <<blocks, log, docs, lines, store, block, nread>>
    /\ UNCHANGED <<dataVars, treeVars, rtVars, callVars>>

\* one iteration of the loop of _do_blocks (nexus.py:180-183); a dict is
\* iterated in no order the program chooses
DoBlock(b) ==
    /\ pc = "dispatch"
    /\ b \in todo
    /\ LET kind == HandlerFor(b)
           res == ParseWith(kind, store[b])
       IN  /\ blocks' = SetItem(blocks, b, res.h)
           /\ log' = Append(log, [block |-> b, nlines |-> Len(store[b]), handler |-> kind])
           /\ IF res.err = "none"
              THEN /\ todo' = todo \ {b}
                   /\ UNCHANGED <<docs, pc>>
              ELSE /\ pc' = "idle"
                   /\ todo' = todo
                   /\ docs' = Append(docs, Call(lines, TRUE, store, res.err, block, Some(b)))
    /\ UNCHANGED <<lines, store, block, nread>>
    /\ UNCHANGED <<dataVars, treeVars, rtVars, callVars>>

\* _do_blocks and read_file return, and the caller holds the instance
Return ==
    /\ pc = "dispatch"
    /\ todo = {}
    /\ pc' = "idle"
    /\ docs' = Append(docs, Call(lines, TRUE, store, "ok", block, None))
    /\ UNCHANGED <<blocks, log, lines, store, block, todo, nread>>
    /\ UNCHANGED <<dataVars, treeVars, rtVars, callVars>>

Next ==
    \/ NewNexus
    \/ \E raw \in FileLines : ReadLine(raw)
    \/ EndOfFile
    \/ \E b \in DOMAIN store : DoBlock(b)
    \/ Return

Spec == Init /\ [][Next]_vars


(***************************************************************************)
(* DataHandler.parse on its own: the lines of a data block, one iteration  *)
(* of the loop at a time.                                                  *)
(***************************************************************************)
\* str(n) for n >= 0
RECURSIVE ToDigits(_)
ToDigits(n) == IF n < 10 THEN <<Digits[n + 1]>> ELSE ToDigits(n \div 10) \o <<Digits[(n % 10) + 1]>>

D_Begin == <<"B","e","g","i","n"," ","d","a","t","a",";">>      \* 'Begin data;'
\* 'TITLE Untitled_Block_of_Taxa;'
D_Title == <<"T","I","T","L","E"," ","U","n","t","i","t","l","e","d","_","B","l","o","c","k",
             "_","o","f","_","T","a","x","a",";">>
\* 'LINK Taxa = Untitled_Block_of_Taxa;'
D_Link == <<"L","I","N","K"," ","T","a","x","a"," ","="," ","U","n","t","i","t","l","e","d",
            "_","B","l","o","c","k","_","o","f","_","T","a","x","a",";">>
\* 'Format datatype=standard gap=- symbols="01";'
D_Format == <<"F","o","r","m","a","t"," ","d","a","t","a","t","y","p","e","=","s","t","a","n",
              "d","a","r","d"," ","g","a","p","=","-"," ","s","y","m","b","o","l","s","=","\"",
              "0","1","\"",";">>
\* 'FORMAT datatype=RNA missing=? interleave;'
D_FormatRna == <<"F","O","R","M","A","T"," ","d","a","t","a","t","y","p","e","=","R","N","A",
                 " ","m","i","s","s","i","n","g","=","?"," ","i","n","t","e","r","l","e","a",
                 "v","e",";">>
D_Matrix == <<"M","a","t","r","i","x">>                          \* 'Matrix'
D_Charstate == <<"C","h","a","r","S","t","a","t","e","L","a","b","e","l","s">>  \* 'CharStateLabels'

\* The dimensions lines: the keyword, then ntax=<int> and nchar=<int> (either
\* may be missing), in lower case in that order or in upper case swapped.

DimsCases ==
    {c \in [upper : BOOLEAN, ntax : {None, Some(2), Some(10)}, nchar : {None, Some(4)}] :
        c.upper => (c.ntax = Some(10) /\ c.nchar # None)}

DimsText(c) ==
    LET kw == IF c.upper THEN <<"D","I","M","E","N","S","I","O","N","S">>
              ELSE <<"D","i","m","e","n","s","i","o","n","s">>
        ntax == IF c.upper THEN <<"N","T","A","X","=">> ELSE <<"n","t","a","x","=">>
        nchar == IF c.upper THEN <<"N","C","H","A","R","=">> ELSE <<"n","c","h","a","r","=">>
        nt == IF c.ntax = None THEN <<>> ELSE <<" ">> \o ntax \o ToDigits(c.ntax[1])
        nc == IF c.nchar = None THEN <<>> ELSE <<" ">> \o nchar \o ToDigits(c.nchar[1])
    IN  (IF c.upper THEN kw \o nc \o nt ELSE kw \o nt \o nc) \o <<";">>

\* The matrix rows: a taxon, a separator and a fragment.
T_Harry == <<"H","a","r","r","y">>
T_Simon == <<"S","i","m","o","n">>

RowCases ==
    {r \in [taxon : {T_Harry, T_Simon}, sep : {<<" ">>, <<" "," "," "," "," "," ">>, <<"\t">>}, sites : {<<"0","1">>, <<"2","3">>}] :
        \/ r.sep = <<" ">>
        \/ r.sep = <<" "," "," "," "," "," ">> /\ r.taxon = T_Simon /\ r.sites = <<"0","1">>
        \/ r.sep = <<"\t">> /\ r.taxon = T_Harry /\ r.sites = <<"2","3">>}

RowText(r) == r.taxon \o r.sep \o r.sites

\* The lines a data block may hold after its `begin` line, as the block
\* splitter stores them (stripped, not blank, without `end;`).
DataLines ==
    {D_Title, D_Link, D_Format, D_FormatRna, D_Matrix, D_Charstate}
        \cup {DimsText(c) : c \in DimsCases} \cup {RowText(r) : r \in RowCases}

InitData ==
    /\ dst = StartParse(NewData)
    /\ dlines = <<>>
    /\ ReaderAtRest
    /\ TreesAtRest
    /\ RoundTripAtRest
    /\ CallsAtRest

\* the loop of DataHandler.parse takes the next line of `data`; the first line
\* of a block is its `begin` line
DataLine(line) ==
    /\ dst.err = "none"
    /\ Len(dlines) < MaxDataLines
    /\ dlines = <<>> => line = D_Begin
    /\ dlines' = Append(dlines, line)
    /\ dst' = DataParseLine(dst, line)
    /\ UNCHANGED <<readerVars, treeVars, rtVars, callVars>>

NextData == \E line \in DataLines \cup {D_Begin} : DataLine(line)

SpecData == InitData /\ [][NextData]_vars


(***************************************************************************)
(* Properties of DataHandler.parse, checked under SpecData.                *)
(***************************************************************************)
Last(q) == q[Len(q)]
Front(q) == SubSeq(q, 1, Len(q) - 1)

RECURSIVE Concat(_)
Concat(q) == IF q = <<>> THEN <<>> ELSE Head(q) \o Concat(Tail(q))

DimsTexts == {DimsText(c) : c \in DimsCases}
DimsCaseOf(text) == CHOOSE c \in DimsCases : DimsText(c) = text
RowTexts == {RowText(r) : r \in RowCases}
RowCaseOf(text) == CHOOSE r \in RowCases : RowText(r) = text

\* the positions of `data` that hold a row of taxon t whose separator is made
\* of spaces, after the `matrix` line
RowsOf(t) ==
    {i \in DOMAIN dlines :
        /\ dlines[i] \in RowTexts
        /\ RowCaseOf(dlines[i]).taxon = t
        /\ RowCaseOf(dlines[i]).sep # <<"\t">>
        /\ \E j \in 1..(i - 1) : dlines[j] = D_Matrix}

\* the fragments of those rows, in the order of the lines
ExpectedFragments(t) ==
    LET at == SortedSeq(RowsOf(t))
    IN  [k \in 1..Len(at) |-> RowCaseOf(dlines[at[k]]).sites]

Fragments(h, t) == IF t \in DOMAIN h.matrix THEN h.matrix[t] ELSE <<>>

MalformedDimensionsError == "IndexError"

\* what C8 says of the dimensions line parsed last, described by c
DimensionsOutcome(c) ==
    IF c.ntax = None \/ c.nchar = None
    THEN dst.err = MalformedDimensionsError
    ELSE /\ dst.err = "none"
         /\ dst.h.ntaxa = c.ntax[1]
         /\ dst.h.nchar = c.nchar[1]

\* C8 as claimed: the parse of a line that opens with the keyword `dimensions`
\* and lacks ntax=<int> or nchar=<int> fails there with
\* MalformedDimensionsError; of one that has both it sets ntaxa and nchar.
C8_AnyDimensionsLine ==
    (dlines # <<>> /\ Last(dlines) \in DimsTexts) =>
        DimensionsOutcome(DimsCaseOf(Last(dlines)))

\* C8, amended: the parse of a line that opens with `dimensions` and a space
\* (in any case of letters) and lacks ntax=<int> or nchar=<int> fails there with
\* the exception of the failed lookup (MalformedDimensionsError); of one that
\* has both, in either case of letters and either order, it succeeds and sets
\* ntaxa and nchar to the two integers.
C8_Dimensions ==
    (/\ dlines # <<>>
     /\ Last(dlines) \in DimsTexts
     /\ StartsWith(Lower(Last(dlines)), S_dimensions)) =>
        DimensionsOutcome(DimsCaseOf(Last(dlines)))

\* `DIMENSIONS NCHAR=4 NTAX=10;` has set both, then `Dimensions ntax=2;` fails
C8_Witness ==
    /\ Len(dlines) = 3
    /\ dlines[2] = DimsText([upper |-> TRUE, ntax |-> Some(10), nchar |-> Some(4)])
    /\ dlines[3] = DimsText([upper |-> FALSE, ntax |-> Some(2), nchar |-> None])
    /\ dst.err = MalformedDimensionsError
    /\ dst.h.ntaxa = 2
    /\ dst.h.nchar = 4

\* the title / link lines among the lines parsed, in their order
IsDeclaration(line) == line \in {D_Title, D_Link}
Declarations == SelectSeq(dlines, IsDeclaration)

\* C9: a title / link line before `matrix` is parsed without error, is
\* appended to `attributes` (which so holds the declarations in their order)
\* and changes none of ntaxa, nchar, format, taxa and matrix.
C9_DeclarationsKept ==
    (/\ dlines # <<>>
     /\ IsDeclaration(Last(dlines))
     /\ D_Matrix \notin Range(Front(dlines))) =>
        LET before == DataParse(NewData, Front(dlines)).h
        IN  /\ dst.err = "none"
            /\ "attributes" \in DOMAIN dst.h
            /\ dst.h.attributes = Declarations
            /\ dst.h.ntaxa = before.ntaxa
            /\ dst.h.nchar = before.nchar
            /\ dst.h.format = before.format
            /\ dst.h.taxa = before.taxa
            /\ dst.h.matrix = before.matrix


(***************************************************************************)
(* Properties of Nexus.read_file and Nexus._do_blocks, checked under Spec. *)
(***************************************************************************)
\* a line read_file passes over: blank, or a whole-line comment
Skipped(raw) == Strip(raw) = <<>> \/ IsCommentLine(Strip(raw))

\* for every line of FileLines: the block name it opens, in lower case (the
\* first `begin <name>;` of a line that is not passed over), or None
Opened ==
    [raw \in FileLines |->
        IF ~Skipped(raw) /\ BeginFindall(Strip(raw)) # <<>>
        THEN Some(Lower(BeginFindall(Strip(raw))[1])) ELSE None]
OpensBlock(raw) == Opened[raw] # None
NameOpened(raw) == Opened[raw][1]

\* the lines that open a block name an earlier line has opened
SecondBegins(ls) ==
    {j \in DOMAIN ls :
        /\ OpensBlock(ls[j])
        /\ \E i \in 1..(j - 1) : Opened[ls[i]] = Opened[ls[j]]}

\* the exception of nexus.py:209: the spec's DuplicateBlockError
DuplicateBlockError == "DuplicateBlock"

C2_Calls ==
    /\ \A k \in DOMAIN docs :
          LET second == SecondBegins(docs[k].lines)
          IN  IF second # {}
              THEN /\ docs[k].result = DuplicateBlockError
                   /\ Len(docs[k].lines) = SetMin(second)
                   /\ ~docs[k].has_raw_blocks
              ELSE docs[k].result # DuplicateBlockError
    /\ pc # "idle" => SecondBegins(lines) = {}

\* C2: a call whose input opens a block name (compared in lower case) a second
\* time ends with DuplicateBlockError on reading that second `begin` line: it
\* reads no further, never assigns raw_blocks and yields no instance; and no
\* call runs a handler while it reads, so that call has run none.  No other
\* call ends with DuplicateBlockError.
C2_DuplicateBlock ==
    /\ []C2_Calls
    /\ [][pc = "reading" => (blocks' = blocks /\ log' = log)]_vars

\* `Begin data;`, `End;`, `  BEGIN DATA;`: the second begin, in another case
\* and after the block was closed, has raised
C2_Witness ==
    \E k \in DOMAIN docs :
        /\ docs[k].lines = <<F_BeginData, F_End, F_BeginDataUpper>>
        /\ docs[k].result = DuplicateBlockError

\* nex.blocks of the k-th instance: the instance has no attribute `blocks` of
\* its own, so the lookup finds the class attribute (nexus.py:167, 181)
BlocksOf(k) == blocks

\* C6: the block mapping of every instance a call has returned holds exactly
\* the blocks of that call's own input, each as its handler parsed it from that
\* input, whatever calls have been made since.
C6_NoSharedState ==
    \A k \in DOMAIN docs :
        docs[k].result = "ok" =>
            /\ DOMAIN BlocksOf(k) = DOMAIN docs[k].raw_blocks
            /\ \A b \in DOMAIN docs[k].raw_blocks :
                  BlocksOf(k)[b] = ParseWith(HandlerFor(b), docs[k].raw_blocks[b]).h

\* an input that opens a block and closes it on no later line
Unterminated(ls) ==
    \E i \in DOMAIN ls :
        /\ OpensBlock(ls[i])
        /\ \A j \in i..Len(ls) : Skipped(ls[j]) \/ ~ClosesBlock(Strip(ls[j]))

\* C7: a call that reaches the end of an input with a block still open ends
\* with an error, not with an instance.
C7_UnterminatedReported ==
    \A k \in DOMAIN docs :
        (docs[k].has_raw_blocks /\ Unterminated(docs[k].lines)) => docs[k].result # "ok"

\* what dispatch leaves under block name b for the raw blocks raw
Dispatched(b, raw) ==
    /\ b \in DOMAIN blocks
    /\ IF b \in DOMAIN known_blocks
       THEN blocks[b].kind = known_blocks[b]
       ELSE blocks[b] = [kind |-> "Generic", storage |-> raw[b]]

\* C10: every block _do_blocks has iterated over is stored under its
\* lower-cased name: one whose name is not in known_blocks as a Generic handler
\* holding exactly the block's raw lines in their order, one whose name is
\* registered as the registered handler, in whatever case the `begin` line is
\* written; and the parse of a block whose name is not registered raises
\* nothing.  (For a returned call this is stated as the call returns, until the
\* next call dispatches.)
C10_Dispatch ==
    /\ pc = "dispatch" =>
          /\ \A b \in DOMAIN store \ todo : Dispatched(b, store)
          /\ \A i \in DOMAIN lines :
                OpensBlock(lines[i]) => NameOpened(lines[i]) \in DOMAIN store
    /\ (pc # "dispatch" /\ docs # <<>>) =>
          LET d == docs[Len(docs)]
          IN  /\ d.result = "ok" =>
                    /\ \A b \in DOMAIN d.raw_blocks : Dispatched(b, d.raw_blocks)
                    /\ \A i \in DOMAIN d.lines :
                          OpensBlock(d.lines[i]) =>
                              Dispatched(NameOpened(d.lines[i]), d.raw_blocks)
              /\ d.failed_block # None => d.failed_block[1] \in DOMAIN known_blocks

\* `  BEGIN DATA;`, `begin notes;`, `Harry 00`: a DataHandler under `data`, a
\* GenericHandler with the two lines under `notes`
C10_Witness ==
    /\ pc = "idle"
    /\ docs # <<>>
    /\ docs[Len(docs)].lines = <<F_BeginDataUpper, F_BeginNotes, F_Row>>
    /\ docs[Len(docs)].result = "ok"
    /\ blocks[S_data].kind = "Data"
    /\ blocks[Lower(<<"N","o","t","e","s">>)] =
          [kind |-> "Generic", storage |-> <<Strip(F_BeginNotes), F_Row>>]


(***************************************************************************)
(* detranslate on its own: a trees handler as its parse leaves it, then    *)
(* detranslate calls.                                                      *)
(***************************************************************************)
\* The tokens of a tree: parentheses, commas, and leaves (a label with or
\* without a branch length); an inner node's branch length follows its `)`.
Open == [kind |-> "open", label |-> <<>>, len |-> None]
Close(len) == [kind |-> "close", label |-> <<>>, len |-> len]
Comma == [kind |-> "comma", label |-> <<>>, len |-> None]
Leaf(label, len) == [kind |-> "leaf", label |-> label, len |-> len]


TreeCases ==
    { <<Open, Leaf(<<"1">>, None), Comma, Leaf(<<"2">>, None), Comma, Leaf(<<"3">>, None), Close(None)>>,
      <<Open, Leaf(<<"1">>, Some(<<"0",".","1">>)), Comma, Leaf(<<"4">>, Some(<<"3">>)), Comma,
        Leaf(<<"5">>, Some(<<"1">>)), Close(None)>>,
      <<Open, Leaf(<<"4">>, None), Comma, Leaf(<<"4","0">>, None), Close(None)>>,
      <<Open, Open, Leaf(<<"1">>, None), Comma, Leaf(<<"2">>, None), Close(Some(<<"1">>)), Comma,
        Leaf(<<"3">>, None), Close(None)>>,
      <<Open, Leaf(<<"f","o","u","r","-","1">>, None), Comma, Leaf(<<"4">>, Some(<<"1">>)), Close(None)>> }

\* The translate tables: none; 1 A, 2 B, 3 C; names with a digit and a dash;
\* names that are labels themselves.
Translators ==
    { <<>>,
      (<<"1">> :> <<"A">>) @@ (<<"2">> :> <<"B">>) @@ (<<"3">> :> <<"C">>),
      (<<"1">> :> <<"o","n","e">>) @@ (<<"4">> :> <<"f","o","u","r","-","1">>) @@ (<<"5">> :> <<"f","o","u","r","_","2">>),
      (<<"1">> :> <<"2">>) @@ (<<"2">> :> <<"1">>) }

ItemText(x) ==
    LET len == IF x.len = None THEN <<>> ELSE <<":">> \o x.len[1]
    IN  CASE x.kind = "open" -> <<"(">>
          [] x.kind = "comma" -> <<",">>
          [] x.kind = "close" -> <<")">> \o len
          [] OTHER -> x.label \o len

RECURSIVE ItemsText(_)
ItemsText(c) == IF c = <<>> THEN <<>> ELSE ItemText(Head(c)) \o ItemsText(Tail(c))

\* the tree statement `tree t1 = <newick>;`
TreeText(c) == <<"t","r","e","e"," ","t","1"," ","="," ">> \o ItemsText(c) \o <<";">>

LeafLabels(c) == {c[i].label : i \in {j \in DOMAIN c : c[j].kind = "leaf"}}

InitTrees ==
    /\ \E tr \in Translators :
       \E n \in 1..MaxTrees :
       \E cs \in [1..n -> TreeCases] :
          /\ tcases = cs
          /\ th = TreesHandler(tr, [i \in 1..n |-> TreeText(cs[i])],
                     IF tr # <<>> THEN Range(tr)
                     ELSE UNION {LeafLabels(cs[i]) : i \in 1..n})
    /\ tcalls = 0
    /\ tfirst = <<>>
    /\ ReaderAtRest
    /\ DataAtRest
    /\ RoundTripAtRest
    /\ CallsAtRest

\* a call of detranslate
DetranslateCall ==
    /\ tcalls < MaxCalls
    /\ tcalls' = tcalls + 1
    /\ th' = Detranslate(th)
    /\ tfirst' = IF tcalls = 0 THEN th'.trees ELSE tfirst
    /\ UNCHANGED <<tcases, readerVars, dataVars, rtVars, callVars>>

NextTrees == DetranslateCall

SpecTrees == InitTrees /\ [][NextTrees]_vars

\* C3: after one or more detranslate calls the tree strings are those the
\* first call left, and _been_detranslated, false before the first call, is
\* true: the later calls change nothing, also where a taxon name is itself a
\* label of the table.
C3_DetranslateIdempotent ==
    /\ tcalls = 0 => ~th.been_detranslated
    /\ tcalls >= 1 => (th.trees = tfirst /\ th.been_detranslated)

\* table `1 2, 2 1`, tree (1,2,3): two calls have left (2,1,3), not (1,2,3) again
C3_Witness ==
    /\ tcalls = 2
    /\ th.translators = (<<"1">> :> <<"2">>) @@ (<<"2">> :> <<"1">>)
    /\ th.trees = << <<"t","r","e","e"," ","t","1"," ","="," ">> \o <<"(","2",",","1",",","3",")",";">> >>
    /\ tfirst = th.trees

\* a tree's tokens with every leaf label that is a key of tr replaced by its name
Translated(c, tr) ==
    [i \in DOMAIN c |->
        IF c[i].kind = "leaf" /\ c[i].label \in DOMAIN tr
        THEN [c[i] EXCEPT !.label = tr[c[i].label]] ELSE c[i]]

\* C4: detranslate leaves each tree string as the string of the same tokens
\* with exactly the leaf labels that are keys of the translate table replaced
\* by their names: the tree's name, the punctuation, the branch lengths, the
\* labels that only contain a key (40) and the names that contain one (four-1)
\* stay as they are.  Before detranslate the strings are as read.
C4_DetranslateLabels ==
    \A i \in DOMAIN th.trees :
        th.trees[i] = TreeText(IF tcalls = 0 THEN tcases[i]
                               ELSE Translated(tcases[i], th.translators))

\* table `1 A, 2 B, 3 C` and tree (1,2,3) give (A,B,C); beside it ((1,2):1,3)
\* gives ((A,B):1,C)
C4_Witness ==
    /\ tcalls = 1
    /\ th.translators = (<<"1">> :> <<"A">>) @@ (<<"2">> :> <<"B">>) @@ (<<"3">> :> <<"C">>)
    /\ th.trees = << <<"t","r","e","e"," ","t","1"," ","="," ">> \o <<"(","A",",","B",",","C",")",";">>,
                     <<"t","r","e","e"," ","t","1"," ","="," ">> \o <<"(","(","A",",","B",")",":","1",",","C",")",";">> >>


(***************************************************************************)
(* The round trip parse, write, parse.  The parse is Nexus(filename) as    *)
(* above, taken as a whole.  nexus.py has no write: write is modelled from *)
(* the specification, section 4.4, and the patterns of                     *)
(* test_regressions.py:178-194.                                            *)
(***************************************************************************)
\* read_file's loop over a whole file, left at the first exception
RECURSIVE ReadFrom(_, _)
ReadFrom(rs, text) ==
    IF text = <<>> \/ rs.err # "none" THEN rs
    ELSE ReadFrom(ReadStep(rs, Head(text)), Tail(text))

ReadFile(text) == ReadFrom([store |-> <<>>, block |-> None, err |-> "none"], text)

\* the elements of a finite set in some order: the order a dict is iterated in
SomeOrder(S) == CHOOSE q \in [1..Cardinality(S) -> S] : Range(q) = S

\* _do_blocks over raw_blocks in the order q, from the class attribute `blocks`
\* as it stands, left at the first exception
RECURSIVE DoBlocksFrom(_, _, _)
DoBlocksFrom(d, raw, q) ==
    IF q = <<>> \/ d.err # "none" THEN d
    ELSE LET res == ParseWith(HandlerFor(Head(q)), raw[Head(q)])
         IN  DoBlocksFrom([err |-> res.err, blocks |-> SetItem(d.blocks, Head(q), res.h)],
                          raw, Tail(q))

\* Nexus(filename) as a whole: read_file, then _do_blocks
ParseInto(blocks0, text) ==
    LET rs == ReadFile(text)
    IN  IF rs.err # "none" THEN [err |-> rs.err, blocks |-> blocks0]
        ELSE DoBlocksFrom([err |-> "none", blocks |-> blocks0], rs.store,
                          SomeOrder(DOMAIN rs.store))


\* the declaration lines a handler holds; the DataHandler of nexus.py has no
\* such attribute
AttributesOf(h) == IF "attributes" \in DOMAIN h THEN h.attributes ELSE <<>>

\* `format <k=v ...>;` from the format mapping: a True value is written bare,
\* the symbols in quotes, the items a space apart
RECURSIVE FormatItems(_, _)
FormatItems(fmt, q) ==
    IF q = <<>> THEN <<>>
    ELSE LET k == Head(q)
             v == IF fmt[k] = PyTrue THEN <<>>
                  ELSE IF k = <<"s","y","m","b","o","l","s">> THEN <<"=", "\"">> \o fmt[k] \o <<"\"">>
                  ELSE <<"=">> \o fmt[k]
         IN  k \o v \o (IF Tail(q) = <<>> THEN <<>> ELSE <<" ">>) \o FormatItems(fmt, Tail(q))
WriteFormat(fmt) ==
    <<"f","o","r","m","a","t"," ">> \o FormatItems(fmt, SomeOrder(DOMAIN fmt)) \o <<";">>

\* the Data handler's write: begin, attributes, dimensions, format, matrix, one
\* line per taxon with its fragments concatenated, `;`, `end;`
WriteData(h) ==
    LET dims == <<"d","i","m","e","n","s","i","o","n","s"," ","n","t","a","x","=">>
                    \o ToDigits(h.ntaxa) \o <<" ","n","c","h","a","r","=">>
                    \o ToDigits(h.nchar) \o <<";">>
    IN  << <<"b","e","g","i","n"," ","d","a","t","a",";">> >> \o AttributesOf(h)
            \o <<dims, WriteFormat(h.format), <<"m","a","t","r","i","x">> >>
            \o [i \in DOMAIN h.taxa |-> h.taxa[i] \o <<" ">> \o Concat(h.matrix[h.taxa[i]])]
            \o << <<";">>, <<"e","n","d",";">> >>

\* a Generic handler's write: the lines it stored, and `end;`
WriteGeneric(h) == h.storage \o << <<"e","n","d",";">> >>

\* a trees block as nexus.py stores it: the one list of lines, and `end;`
WriteTree(h) == Concat(h.storage) \o << <<"e","n","d",";">> >>

WriteBlock(h) ==
    CASE h.kind = "Data" -> WriteData(h)
      [] h.kind = "Tree" -> WriteTree(h)
      [] OTHER -> WriteGeneric(h)

\* Document.write(): the header, then every block
RECURSIVE WriteBlocks(_, _)
WriteBlocks(bs, q) ==
    IF q = <<>> THEN <<>> ELSE WriteBlock(bs[Head(q)]) \o WriteBlocks(bs, Tail(q))
Write(bs) == << <<"#","N","E","X","U","S">> >> \o WriteBlocks(bs, SomeOrder(DOMAIN bs))

\* The valid inputs: `#NEXUS`, a blank line and one data block with its
\* declarations, its dimensions, its format, its matrix, `;` and `End;`, as
\* Mesquite writes it (test_regressions.py:156-169), indented or not.
Row(t, sep, g) == [taxon |-> t, sep |-> sep, sites |-> g]

Matrices ==
    { <<Row(T_Harry, <<" "," "," "," "," "," ">>, <<"0","0">>), Row(T_Simon, <<" "," "," "," "," "," ">>, <<"0","1">>)>>,
      <<Row(T_Harry, <<" ">>, <<"0","1">>), Row(T_Simon, <<" ">>, <<"2","3">>),
        Row(T_Harry, <<" ">>, <<"2","3">>), Row(T_Simon, <<" ">>, <<"0","1">>)>>,
      <<Row(T_Harry, <<" ">>, <<"2","3">>)>> }

RTCases ==
    [attrs : {<<>>, <<D_Title>>, <<D_Title, D_Link>>}, fmt : {<<>>, <<D_Format>>},
     rows : Matrices, indent : BOOLEAN, upper : BOOLEAN]

\* the taxa of a matrix in first-seen order, and a taxon's whole sequence
RECURSIVE TaxaOf(_)
TaxaOf(rows) ==
    IF rows = <<>> THEN <<>>
    ELSE LET rest == TaxaOf(Front(rows))
         IN  IF Last(rows).taxon \in Range(rest) THEN rest ELSE Append(rest, Last(rows).taxon)
RECURSIVE SequenceOf(_, _)
SequenceOf(rows, t) ==
    IF rows = <<>> THEN <<>>
    ELSE (IF Head(rows).taxon = t THEN Head(rows).sites ELSE <<>>) \o SequenceOf(Tail(rows), t)

RTText(c) ==
    LET body == <<D_Begin>> \o c.attrs
                  \o <<DimsText([upper |-> c.upper,
                                 ntax |-> Some(Len(TaxaOf(c.rows))),
                                 nchar |-> Some(Len(SequenceOf(c.rows, c.rows[1].taxon)))])>>
                  \o c.fmt \o <<D_Matrix>>
                  \o [i \in DOMAIN c.rows |-> RowText(c.rows[i])]
                  \o << <<";">>, F_End >>
    IN  << <<"#","N","E","X","U","S">>, <<>> >>
            \o [i \in DOMAIN body |-> (IF c.indent THEN <<" "," "," "," ">> ELSE <<>>) \o body[i]]

InitRoundTrip ==
    /\ \E c \in RTCases :
          rt = [stage |-> "text", case |-> c, text |-> RTText(c), doc |-> NoDocument,
                out |-> <<>>, doc2 |-> NoDocument]
    /\ ReaderAtRest
    /\ DataAtRest
    /\ TreesAtRest
    /\ CallsAtRest

\* parse(text)
RTParse ==
    /\ rt.stage = "text"
    /\ LET d == ParseInto(<<>>, rt.text)
       IN  rt' = [rt EXCEPT !.doc = d,
                            !.stage = IF d.err = "none" THEN "parsed" ELSE "failed"]
    /\ UNCHANGED <<readerVars, dataVars, treeVars, callVars>>

\* Document.write()
RTWrite ==
    /\ rt.stage = "parsed"
    /\ rt' = [rt EXCEPT !.out = Write(rt.doc.blocks), !.stage = "written"]
    /\ UNCHANGED <<readerVars, dataVars, treeVars, callVars>>

\* parse of the written text; the class attribute `blocks` is the first parse's
RTReparse ==
    /\ rt.stage = "written"
    /\ rt' = [rt EXCEPT !.doc2 = ParseInto(rt.doc.blocks, rt.out), !.stage = "reparsed"]
    /\ UNCHANGED <<readerVars, dataVars, treeVars, callVars>>

NextRoundTrip == RTParse \/ RTWrite \/ RTReparse

SpecRoundTrip == InitRoundTrip /\ [][NextRoundTrip]_vars

\* two documents that are equivalent: the same block names, and for a data
\* block the same dimensions, taxa, sequence per taxon, format and declarations
Equivalent(b1, b2) ==
    /\ DOMAIN b1 = DOMAIN b2
    /\ \A n \in DOMAIN b1 :
          /\ b1[n].kind = b2[n].kind
          /\ b1[n].kind = "Data" =>
                /\ b1[n].ntaxa = b2[n].ntaxa
                /\ b1[n].nchar = b2[n].nchar
                /\ b1[n].taxa = b2[n].taxa
                /\ DOMAIN b1[n].matrix = DOMAIN b2[n].matrix
                /\ \A t \in DOMAIN b1[n].matrix :
                      Concat(b1[n].matrix[t]) = Concat(b2[n].matrix[t])
                /\ b1[n].format = b2[n].format
                /\ AttributesOf(b1[n]) = AttributesOf(b2[n])

\* C1: every valid input parses; its document holds the data block with the
\* input's declarations in their order; and the parse of what write gives is a
\* document equivalent to the first.
C1_RoundTrip ==
    /\ rt.stage \in {"parsed", "failed", "written", "reparsed"} =>
          /\ rt.doc.err = "none"
          /\ DOMAIN rt.doc.blocks = {S_data}
          /\ AttributesOf(rt.doc.blocks[S_data]) = rt.case.attrs
    /\ rt.stage = "reparsed" =>
          /\ rt.doc2.err = "none"
          /\ Equivalent(rt.doc.blocks, rt.doc2.blocks)


(***************************************************************************)
(* The taxa handler's parse.  nexus.py has no taxa handler (known_blocks   *)
(* holds trees and data only): its fields and its parse are modelled from  *)
(* the specification, sections 3 and 4.6.                                  *)
(***************************************************************************)
NewTaxa == [kind |-> "Taxa", taxa |-> <<>>, ntaxa |-> 0, in_taxlabels |-> FALSE]

\* TaxaLabels taking the whole payload as one label: one taxon per line only
TaxaLabels_OnePerLine(h, payload) ==
    LET text == Strip(RemoveChar(payload, ";"))
        taxa == IF text = <<>> THEN h.taxa ELSE Append(h.taxa, text)
    IN  [h EXCEPT !.taxa = taxa, !.ntaxa = Len(taxa),
                  !.in_taxlabels = ~Contains(payload, <<";">>)]

\* the payload of a taxlabels statement: its whitespace-delimited tokens are
\* appended to taxa in their order, ntaxa follows, and a `;` ends the statement
TaxaLabels(h, payload) ==
    LET taxa == h.taxa \o SplitWhitespace(RemoveChar(payload, ";"))
    IN  [h EXCEPT !.taxa = taxa, !.ntaxa = Len(taxa),
                  !.in_taxlabels = ~Contains(payload, <<";">>)]

\* one line of a taxa block: the `begin` line and the dimensions line are
\* recognised and hold no label; `taxlabels` opens the statement, its payload
\* the rest of that line and the lines that follow
TaxaParseLine(h, line) ==
    LET kw == <<"t","a","x","l","a","b","e","l","s">>
    IN  IF MatchBegin(line) \/ StartsWith(Lower(line), S_dimensions) THEN h
        ELSE IF StartsWith(Lower(line), kw)
             THEN TaxaLabels(h, SubSeq(line, Len(kw) + 1, Len(line)))
        ELSE IF h.in_taxlabels THEN TaxaLabels(h, line)
        ELSE h

\* The label lines of a taxa block: label i opens a new line where brk[i]
\* holds and follows the line before it, after the separator, where not; the
\* `;` ends the last line or stands on a line of its own.
RECURSIVE LabelLines(_, _, _)
LabelLines(c, i, cur) ==
    IF i > Len(c.taxa)
    THEN IF c.own THEN <<cur, <<";">> >> ELSE <<cur \o <<";">> >>
    ELSE IF c.brk[i] THEN <<cur>> \o LabelLines(c, i + 1, c.taxa[i])
         ELSE LabelLines(c, i + 1, cur \o c.sep \o c.taxa[i])

\* a taxa block as the block splitter stores it (test_regressions.py:114-125,
\* 235-252): `Begin taxa;`, the dimensions, the taxlabels statement
TaxaText(c) ==
    << <<"B","e","g","i","n"," ","t","a","x","a",";">>,
       <<"D","i","m","e","n","s","i","o","n","s"," ","n","t","a","x","=">>
           \o ToDigits(Len(c.taxa)) \o <<";">> >>
        \o LabelLines(c, 1, <<"T","a","x","L","a","b","e","l","s">>)

\* the taxa A, B, C and D_1 in any order without repetition, in any layout
InitTaxa ==
    /\ \E n \in 1..MaxTaxa :
       \E taxa \in [1..n -> {<<"A">>, <<"B">>, <<"C">>, <<"D","_","1">>}] :
       \E brk \in [1..n -> BOOLEAN] :
       \E sep \in {<<" ">>, <<"\t">>, <<" "," ">>} :
       \E own \in BOOLEAN :
          /\ \A i, j \in 1..n : taxa[i] = taxa[j] => i = j
          /\ (\A i \in 1..n : brk[i]) => sep = <<" ">>
          /\ LET c == [taxa |-> taxa, brk |-> brk, sep |-> sep, own |-> own]
             IN  tx = [stage |-> "parse", case |-> c, data |-> TaxaText(c), at |-> 0,
                       h |-> NewTaxa]
    /\ cm = NoCall
    /\ sp = NoCall
    /\ ReaderAtRest
    /\ DataAtRest
    /\ TreesAtRest
    /\ RoundTripAtRest

\* the loop of the taxa handler's parse takes the next line of `data`
TaxaLine ==
    /\ tx.stage = "parse"
    /\ tx.at < Len(tx.data)
    /\ tx' = [tx EXCEPT !.at = tx.at + 1, !.h = TaxaParseLine(tx.h, tx.data[tx.at + 1])]
    /\ UNCHANGED <<cm, sp, readerVars, dataVars, treeVars, rtVars>>

SpecTaxa == InitTaxa /\ [][TaxaLine]_vars

\* C11: the parse of a taxa block whose taxlabels statement lists its taxa one
\* per line, several on a line separated by whitespace, or both, yields the
\* taxa listed, in their order, and ntaxa = len(taxa): two blocks that list the
\* same taxa in the same order in different forms yield identical `taxa`.
C11_TaxLabelsForms ==
    /\ tx.stage = "parse" => tx.h.ntaxa = Len(tx.h.taxa)
    /\ (tx.stage = "parse" /\ tx.at = Len(tx.data)) =>
          /\ tx.h.taxa = tx.case.taxa
          /\ tx.h.ntaxa = Len(tx.case.taxa)

\* `TaxLabels A B C;` on one line has been parsed: A, B, C
C11_Witness ==
    /\ tx.stage = "parse"
    /\ tx.at = Len(tx.data)
    /\ tx.data[3] = <<"T","a","x","L","a","b","e","l","s"," ","A"," ","B"," ","C",";">>
    /\ tx.h.taxa = << <<"A">>, <<"B">>, <<"C">> >>
    /\ tx.h.ntaxa = 3


(***************************************************************************)
(* GenericHandler.remove_comments (nexus.py:57, 68-78) on its own.         *)
(***************************************************************************)
\* COMMENT_PATTERN with a greedy `.*`: from the first `[` to the last `]`
RemoveComments_Greedy(line) ==
    LET closes == {j \in 1..Len(line) : line[j] = "]"}
        opens == {i \in 1..Len(line) : line[i] = "[" /\ \E j \in closes : j > i}
    IN  IF opens = {} THEN line
        ELSE SubSeq(line, 1, SetMin(opens) - 1) \o SubSeq(line, SetMax(closes) + 1, Len(line))

\* COMMENT_PATTERN.sub('', line), the pattern `(\[.*?\])`: scanning from the
\* left, a `[` with a `]` somewhere after it is removed with everything up to
\* the nearest such `]`, and the scan goes on after it
RECURSIVE RemoveComments(_)
RemoveComments(line) ==
    IF line = <<>> THEN <<>>
    ELSE LET closes == {j \in 2..Len(line) : line[j] = "]"}
         IN  IF Head(line) = "[" /\ closes # {}
             THEN RemoveComments(SubSeq(line, SetMin(closes) + 1, Len(line)))
             ELSE <<Head(line)>> \o RemoveComments(Tail(line))

\* the lines of up to MaxLineLen characters out of a letter, the space and the
\* two brackets, and the two lines of the doctest (nexus.py:73-76)
InitComments ==
    /\ \E line \in UNION {[1..n -> {"a", " ", "[", "]"}] : n \in 0..MaxLineLen}
                     \cup {<<"H","e","l","l","o"," ","[","w","o","r","l","d","]">>, <<"H","e","[","b","i","t","e","]","l","l","[","m","e","]","o">>} :
          cm = [stage |-> "line", line |-> line, out |-> <<>>]
    /\ tx = NoCall
    /\ sp = NoCall
    /\ ReaderAtRest
    /\ DataAtRest
    /\ TreesAtRest
    /\ RoundTripAtRest

\* g.remove_comments(line)
RemoveCall ==
    /\ cm.stage = "line"
    /\ cm' = [cm EXCEPT !.stage = "done", !.out = RemoveComments(cm.line)]
    /\ UNCHANGED <<tx, sp, readerVars, dataVars, treeVars, rtVars>>

SpecComments == InitComments /\ [][RemoveCall]_vars

\* a line without nested brackets: a `]` stands between any two `[`
NotNested(s) ==
    \A a, b \in 1..Len(s) :
        (a < b /\ s[a] = "[" /\ s[b] = "[") => \E k \in (a + 1)..(b - 1) : s[k] = "]"

\* the positions of s inside a span from a `[` to the nearest `]` after it
InSpan(s) ==
    {i \in 1..Len(s) :
        \E a \in 1..i : \E b \in i..Len(s) :
            /\ a < b /\ s[a] = "[" /\ s[b] = "]"
            /\ \A k \in (a + 1)..(b - 1) : s[k] \notin {"[", "]"}}

\* C12: for a line without nested brackets, remove_comments returns the
\* characters of the line that stand in no `[...]` span (a span runs from a `[`
\* to the nearest `]` after it), in their order, spaces included; a line with
\* no complete span is returned unchanged.
C12_CommentsRemoved ==
    (cm.stage = "done" /\ NotNested(cm.line)) =>
        LET kept == {i \in 1..Len(cm.line) : i \notin InSpan(cm.line)}
        IN  /\ cm.out = [k \in 1..Cardinality(kept) |-> cm.line[SortedSeq(kept)[k]]]
            /\ InSpan(cm.line) = {} => cm.out = cm.line
            /\ cm.line = <<"H","e","l","l","o"," ","[","w","o","r","l","d","]">> => cm.out = <<"H","e","l","l","o"," ">>
            /\ cm.line = <<"H","e","[","b","i","t","e","]","l","l","[","m","e","]","o">> => cm.out = <<"H","e","l","l","o">>

\* `He[bite]ll[me]o` has given `Hello`
C12_Witness ==
    /\ cm.stage = "done"
    /\ cm.line = <<"H","e","[","b","i","t","e","]","l","l","[","m","e","]","o">>
    /\ cm.out = <<"H","e","l","l","o">>


(***************************************************************************)
(* Further properties of DataHandler.parse, checked under SpecData.        *)
(***************************************************************************)
\* lines that stand in a data block as NEXUS has them: a dimensions line holds
\* ntax and nchar, and a matrix row stands after `matrix`
WellFormed(ls) ==
    \A i \in DOMAIN ls :
        /\ ls[i] \in DimsTexts =>
              (DimsCaseOf(ls[i]).ntax # None /\ DimsCaseOf(ls[i]).nchar # None)
        /\ ls[i] \in RowTexts => \E j \in 1..(i - 1) : ls[j] = D_Matrix

\* C13: the parse of a data block that holds a charstatelabels line, after
\* whatever well-formed lines, before or after `matrix`, fails with
\* NotImplementedError, the line neither dropped nor stored as a matrix row.
C13_CharStateLabels ==
    (WellFormed(dlines) /\ D_Charstate \notin Range(dlines)) =>
        LET res == DataParse(NewData, Append(dlines, D_Charstate))
            before == DataParse(NewData, dlines)
        IN  /\ res.err = "NotImplementedError"
            /\ res.h.matrix = before.h.matrix
            /\ res.h.taxa = before.h.taxa


(***************************************************************************)
(* detranslate on a trees block without a translate table, checked under   *)
(* SpecTrees.                                                              *)
(***************************************************************************)
\* C14: whatever detranslate calls are made on a trees block with no translate
\* table (translators empty, was_translated false), its tree strings are the
\* ones parsed, in their order, and its taxa are unchanged; the call raises
\* nothing.
C14_NoTableNoOp ==
    (th.translators = <<>> /\ ~th.was_translated) =>
        /\ th.trees = [i \in DOMAIN tcases |-> TreeText(tcases[i])]
        /\ th.taxa = UNION {LeafLabels(tcases[i]) : i \in DOMAIN tcases}
        /\ tcalls >= 1 => tfirst = th.trees

\* detranslate has been called on `tree t1 = (1,2,3);` without a table
C14_Witness ==
    /\ tcalls >= 1
    /\ th.translators = <<>>
    /\ ~th.was_translated
    /\ th.been_detranslated
    /\ th.trees = << <<"t","r","e","e"," ","t","1"," ","="," ","(","1",",","2",",","3",")",";">> >>


\* C15: whatever lines the Data handler has parsed, `taxa` holds no name
\* twice, the names of `taxa` are the keys of `matrix`, every key has a
\* fragment, and `taxa` lists the names in the order of their first matrix row
\* (a row as the handler takes it: taxon, spaces, fragment, after `matrix`).
C15_TaxaMatrix ==
    LET h == dst.h
    IN  /\ \A i, j \in DOMAIN h.taxa : h.taxa[i] = h.taxa[j] => i = j
        /\ Range(h.taxa) = DOMAIN h.matrix
        /\ \A t \in DOMAIN h.matrix : h.matrix[t] # <<>>
        /\ \A t \in {T_Harry, T_Simon} : t \in Range(h.taxa) <=> RowsOf(t) # {}
        /\ \A i, j \in DOMAIN h.taxa :
              (i < j /\ {h.taxa[i], h.taxa[j]} = {T_Harry, T_Simon}) =>
                  SetMin(RowsOf(h.taxa[i])) < SetMin(RowsOf(h.taxa[j]))

\* rows of Simon, Harry, Simon: taxa is Simon, Harry, and both are keys
C15_Witness ==
    /\ dlines = <<D_Begin, D_Matrix, T_Simon \o <<" ","0","1">>, T_Harry \o <<" ","0","1">>,
                  T_Simon \o <<" ","2","3">> >>
    /\ dst.err = "none"
    /\ dst.h.taxa = <<T_Simon, T_Harry>>
    /\ DOMAIN dst.h.matrix = {T_Simon, T_Harry}


\* C16: in matrix mode every line made of a taxon, a run of spaces or tabs and
\* a fragment gives that fragment to that taxon: the taxon's fragment sequence
\* is the fragments of all its rows, whatever their separator, in their order;
\* and taking such a line raises nothing.
C16_WhitespaceSplit ==
    \A t \in {T_Harry, T_Simon} :
        LET rows == {i \in DOMAIN dlines :
                        /\ dlines[i] \in RowTexts
                        /\ RowCaseOf(dlines[i]).taxon = t
                        /\ \E j \in 1..(i - 1) : dlines[j] = D_Matrix}
            at == SortedSeq(rows)
        IN  /\ Fragments(dst.h, t) = [k \in 1..Len(at) |-> RowCaseOf(dlines[at[k]]).sites]
            /\ (rows # {} /\ SetMax(rows) = Len(dlines)) => dst.err = "none"


(***************************************************************************)
(* The block splitter on its own: the loop of Nexus.read_file              *)
(* (nexus.py:195-220) over a whole file.                                   *)
(***************************************************************************)
\* the files of up to MaxFileLen lines out of two `begin` lines, a line of
\* content, the two closing lines, a blank line, a comment line, and a block
\* opened and closed on one line, `begin notes; end;`
InitSplit ==
    /\ \E n \in 0..MaxFileLen :
       \E text \in [1..n ->
                      {F_BeginDataUpper, F_BeginNotes, F_Row, F_End, F_Semi, F_Blank, F_Comment,
                       <<"b","e","g","i","n"," ","n","o","t","e","s",";"," ","e","n","d",";">>}] :
          sp = [stage |-> "file", text |-> text, err |-> "none", raw_blocks |-> <<>>]
    /\ tx = NoCall
    /\ cm = NoCall
    /\ ReaderAtRest
    /\ DataAtRest
    /\ TreesAtRest
    /\ RoundTripAtRest

\* the loop over the file, and `self.raw_blocks = store` if it raised nothing
SplitCall ==
    /\ sp.stage = "file"
    /\ LET rs == ReadFile(sp.text)
       IN  sp' = [sp EXCEPT !.stage = "done", !.err = rs.err,
                            !.raw_blocks = IF rs.err = "none" THEN rs.store ELSE <<>>]
    /\ UNCHANGED <<tx, cm, readerVars, dataVars, treeVars, rtVars>>

SpecSplit == InitSplit /\ [][SplitCall]_vars

\* the lines of a file that are not passed over, stripped; those among them
\* that hold a `begin <name>;`; those that hold `end;` or are a lone `;`
Kept(ls) == {i \in DOMAIN ls : ~Skipped(ls[i])}
Begins(ls) == {i \in Kept(ls) : BeginFindall(Strip(ls[i])) # <<>>}
Ends(ls) ==
    {i \in Kept(ls) : Contains(Lower(Strip(ls[i])), <<"e","n","d",";">>) \/ Strip(ls[i]) = <<";">>}

\* the kept lines of ls from line b to the line before the first line of
\* `stops` after b, stripped
LinesFrom(ls, b, stops) ==
    LET after == {j \in stops : j > b}
        last == IF after = {} THEN Len(ls) ELSE SetMin(after) - 1
        at == SortedSeq({k \in Kept(ls) : b <= k /\ k <= last})
    IN  [k \in 1..Len(at) |-> Strip(ls[at[k]])]

\* C17 as claimed: every block of the result holds the kept lines from its
\* `begin` line, that line first, to the line before the first closing line
\* after it.
C17_UpToClosingLine ==
    (sp.stage = "done" /\ sp.err = "none") =>
        LET ls == sp.text
        IN  /\ DOMAIN sp.raw_blocks = {Lower(BeginFindall(Strip(ls[b]))[1]) : b \in Begins(ls)}
            /\ \A b \in Begins(ls) :
                  sp.raw_blocks[Lower(BeginFindall(Strip(ls[b]))[1])] = LinesFrom(ls, b, Ends(ls))

\* C17, amended: the result holds one block for every `begin <name>;` line
\* kept, under the name in lower case; its lines are the kept lines from its
\* `begin` line, that line first, to the line before the first line after it
\* that closes the block or opens another one; but a block whose `begin` line
\* holds `end;` itself has no line at all.  Every other line is in no block.
C17_BlockLines ==
    (sp.stage = "done" /\ sp.err = "none") =>
        LET ls == sp.text
        IN  /\ DOMAIN sp.raw_blocks = {Lower(BeginFindall(Strip(ls[b]))[1]) : b \in Begins(ls)}
            /\ \A b \in Begins(ls) :
                  sp.raw_blocks[Lower(BeginFindall(Strip(ls[b]))[1])] =
                      IF b \in Ends(ls) THEN <<>>
                      ELSE LinesFrom(ls, b, Ends(ls) \cup Begins(ls))

\* `  BEGIN DATA;`, `Harry 00`, `<tab>;`, `Harry 00`: the block data holds its
\* first two lines, stripped; the row after the `;` is in no block
C17_Witness ==
    /\ sp.stage = "done"
    /\ sp.err = "none"
    /\ sp.text = <<F_BeginDataUpper, F_Row, F_Semi, F_Row>>
    /\ sp.raw_blocks = (S_data :> <<Strip(F_BeginDataUpper), F_Row>>)

====
